---- MODULE Spec2Model ----
(***************************************************************************)
(* Model of the 2D ideal-gas simulator: particula.py (Particula) and       *)
(* simulacion.py (crear_gas, paso, energia_total, temperatura), driven as   *)
(* graficar.py drives them: the parameters are read, the gas is created    *)
(* once, then paso is called again and again.                              *)
(*                                                                         *)
(* Positions, velocities and time steps are integers (on such values the   *)
(* program's float arithmetic is exact); energies and temperatures, which  *)
(* involve 0.5* and divisions, are exact rationals <<num, den>> in lowest  *)
(* terms with den > 0.                                                     *)
(***************************************************************************)
EXTENDS Integers, Sequences, FiniteSets, TLC

\* Bounds of the model.
MaxN == 2        \* N_PARTICULAS ranges over 0..MaxN
MaxAncho == 3    \* ANCHO_CAJA ranges over 1..MaxAncho
MaxAlto == 2     \* ALTO_CAJA ranges over 1..MaxAlto
MaxV == 2        \* V_MEDIA_INI ranges over 1..MaxV
MaxZ == 1        \* a normal draw (np.random.randn) ranges over -MaxZ..MaxZ
MaxDt == 2       \* dt of a paso call ranges over -MaxDt..MaxDt
MaxK == 2        \* k_B of a temperatura call ranges over 1..MaxK

VARIABLES
    fase,          \* "inicio": parameters read; "creado": crear_gas returned;
                   \* "simulando": paso has been called at least once
    N_PARTICULAS,  \* main's parameters
    ANCHO_CAJA,
    ALTO_CAJA,
    V_MEDIA_INI,
    particulas,    \* the list crear_gas returned, mutated in place by paso
    normales,      \* the randn draws crear_gas used, <<zx, zy>> per particle
    previo,        \* the value of particulas before the last paso call
    ultimo_dt      \* the dt of the last paso call

vars == <<fase, N_PARTICULAS, ANCHO_CAJA, ALTO_CAJA, V_MEDIA_INI,
          particulas, normales, previo, ultimo_dt>>

----------------------------------------------------------------------------
\* Exact rational arithmetic standing for the float operations * / + of the
\* energy and temperature formulas.

RECURSIVE GCD(_, _)
GCD(a, b) == IF b = 0 THEN a ELSE GCD(b, a % b)

Abs(a) == IF a < 0 THEN -a ELSE a

\* num/den in lowest terms, den > 0 (den # 0 required)
Rat(num, den) ==
    LET g == GCD(Abs(num), Abs(den))
        s == IF den < 0 THEN -1 ELSE 1
    IN  <<(s * num) \div g, (s * den) \div g>>

RInt(a) == <<a, 1>>
RAdd(a, b) == Rat(a[1] * b[2] + b[1] * a[2], a[2] * b[2])
RMul(a, b) == Rat(a[1] * b[1], a[2] * b[2])
RDiv(a, b) == Rat(a[1] * b[2], a[2] * b[1])
RLeq(a, b) == a[1] * b[2] <= b[1] * a[2]

----------------------------------------------------------------------------
\* particula.py

\* Particula.__init__
Particula(x, y, vx, vy, masa) ==
    [posicion |-> <<x, y>>, velocidad |-> <<vx, vy>>, masa |-> masa]

\* Particula.mover: self.posicion += self.velocidad * dt
mover(p, dt) ==
    [p EXCEPT !.posicion = <<p.posicion[1] + p.velocidad[1] * dt,
                             p.posicion[2] + p.velocidad[2] * dt>>]

\* Which branch of the if/elif of one axis a coordinate takes.
rama(pos, limite) ==
    IF pos < 0 THEN "baja" ELSE IF pos > limite THEN "alta" ELSE "ninguna"

\* A collision handler that only reverses the velocity and forgets to put the
\* particle back on the wall.
colisionar_eje_sin_tope(pos, vel, limite) ==
    IF pos < 0 THEN <<pos, -vel>>
    ELSE IF pos > limite THEN <<pos, -vel>>
    ELSE <<pos, vel>>

\* An inelastic wall: the particle is stopped on the axis it hits.
colisionar_eje_inelastico(pos, vel, limite) ==
    IF pos < 0 THEN <<0, 0>>
    ELSE IF pos > limite THEN <<limite, 0>>
    ELSE <<pos, vel>>

\* The comparisons written <= and >= instead of < and >.
colisionar_eje_inclusivo(pos, vel, limite) ==
    IF pos <= 0 THEN <<0, -vel>>
    ELSE IF pos >= limite THEN <<limite, -vel>>
    ELSE <<pos, vel>>

\* The high wall clamps but does not reverse the velocity.
colisionar_eje_sin_rebote_alto(pos, vel, limite) ==
    IF pos < 0 THEN <<0, -vel>>
    ELSE IF pos > limite THEN <<limite, vel>>
    ELSE <<pos, vel>>

\* The reflected velocity is forced to point up (abs) at both walls.
colisionar_eje_abs(pos, vel, limite) ==
    IF pos < 0 THEN <<0, Abs(vel)>>
    ELSE IF pos > limite THEN <<limite, Abs(vel)>>
    ELSE <<pos, vel>>

\* One axis of Particula.colisionar_pared: <<position, velocity>> after the
\* if/elif of that axis.
colisionar_eje(pos, vel, limite) ==
    IF pos < 0 THEN <<0, -vel>>
    ELSE IF pos > limite THEN <<limite, -vel>>
    ELSE <<pos, vel>>

\* Particula.colisionar_pared: the x axis against ancho, then the y axis
\* against alto.
colisionar_pared(p, ancho, alto) ==
    LET ex == colisionar_eje(p.posicion[1], p.velocidad[1], ancho)
        ey == colisionar_eje(p.posicion[2], p.velocidad[2], alto)
    IN  [p EXCEPT !.posicion = <<ex[1], ey[1]>>,
                  !.velocidad = <<ex[2], ey[2]>>]

\* np.dot of two 2-vectors
dot(a, b) == a[1] * b[1] + a[2] * b[2]

\* An energy linear in the velocity components (the square forgotten).
energia_cinetica_lineal(p) ==
    RMul(RMul(Rat(1, 2), RInt(p.masa)),
         RInt(p.velocidad[1] + p.velocidad[2]))

\* An energy proportional to the speed |v| taken as |vx| + |vy|.
energia_cinetica_modulo(p) ==
    RMul(RMul(Rat(1, 2), RInt(p.masa)),
         RInt(Abs(p.velocidad[1]) + Abs(p.velocidad[2])))

\* Particula.energia_cinetica: 0.5 * masa * dot(velocidad, velocidad)
energia_cinetica(p) ==
    RMul(RMul(Rat(1, 2), RInt(p.masa)), RInt(dot(p.velocidad, p.velocidad)))

----------------------------------------------------------------------------
\* simulacion.py

\* A loop that starts at 1 instead of 0 and so creates one particle too few.
crear_gas_uno_menos(N, ancho, alto, v_media, pos, z) ==
    [i \in 1..(N - 1) |->
        Particula(pos[i][1], pos[i][2],
                  z[i][1] * v_media, z[i][2] * v_media, 1)]

\* crear_gas. pos[i] is <<rand()*ancho, rand()*alto>> of the i-th iteration,
\* z[i] its two randn() draws; the mass is 1.0.
crear_gas(N, ancho, alto, v_media, pos, z) ==
    [i \in 1..N |->
        Particula(pos[i][1], pos[i][2],
                  z[i][1] * v_media, z[i][2] * v_media, 1)]

\* A loop body in which the particle just moved hands its velocity to the
\* next particle of the list (the velocity arrays aliased).
paso_uno_acoplado(ps, i, dt, ancho, alto) ==
    LET q == colisionar_pared(mover(ps[i], dt), ancho, alto)
        j == IF i < Len(ps) THEN i + 1 ELSE i
    IN  [[ps EXCEPT ![i] = q] EXCEPT ![j].velocidad = q.velocidad]

\* The body of paso's loop for the particle at index i:
\* p.mover(dt); p.colisionar_pared(ancho, alto)
paso_uno(ps, i, dt, ancho, alto) ==
    [ps EXCEPT ![i] = colisionar_pared(mover(ps[i], dt), ancho, alto)]

\* paso's loop run over the indices in the order given.
RECURSIVE paso_en_orden(_, _, _, _, _)
paso_en_orden(ps, orden, dt, ancho, alto) ==
    IF orden = <<>> THEN ps
    ELSE paso_en_orden(paso_uno(ps, Head(orden), dt, ancho, alto),
                       Tail(orden), dt, ancho, alto)

\* paso: for p in particulas, in list order.
paso(ps, dt, ancho, alto) ==
    paso_en_orden(ps, [i \in 1..Len(ps) |-> i], dt, ancho, alto)

\* energia_total: sum(...) starts from 0 and adds in list order.
RECURSIVE suma_energias(_, _)
suma_energias(ps, acc) ==
    IF ps = <<>> THEN acc
    ELSE suma_energias(Tail(ps), RAdd(acc, energia_cinetica(Head(ps))))

energia_total(ps) == suma_energias(ps, RInt(0))

\* A temperature that forgets to divide by the number of particles.
temperatura_sin_promedio(ps, k_B) ==
    IF Len(ps) = 0 THEN RInt(0)
    ELSE RDiv(energia_total(ps), RInt(k_B))

\* temperatura: 0.0 for the empty list, else e_total / len / k_B
temperatura(ps, k_B) ==
    IF Len(ps) = 0 THEN RInt(0)
    ELSE RDiv(RDiv(energia_total(ps), RInt(Len(ps))), RInt(k_B))

----------------------------------------------------------------------------
\* The program

Init ==
    /\ fase = "inicio"
    /\ N_PARTICULAS \in 0..MaxN
    /\ ANCHO_CAJA \in 1..MaxAncho
    /\ ALTO_CAJA \in 1..MaxAlto
    /\ V_MEDIA_INI \in 1..MaxV
    /\ particulas = <<>>
    /\ normales = <<>>
    /\ previo = <<>>
    /\ ultimo_dt = 0

\* inicializar_animacion: particulas = simulacion.crear_gas(...)
\* np.random.rand() lies in [0, 1), so rand()*ancho lies in [0, ancho) and
\* rand()*alto in [0, alto): the positions drawn are 0..ancho-1 and 0..alto-1.
\* np.random.randn() is any real: the draws are -MaxZ..MaxZ.
CrearGas ==
    /\ fase = "inicio"
    /\ \E pos \in [1..N_PARTICULAS ->
                      (0..(ANCHO_CAJA - 1)) \X (0..(ALTO_CAJA - 1))],
          z \in [1..N_PARTICULAS -> (-MaxZ..MaxZ) \X (-MaxZ..MaxZ)] :
          /\ particulas' = crear_gas(N_PARTICULAS, ANCHO_CAJA, ALTO_CAJA,
                                     V_MEDIA_INI, pos, z)
          /\ normales' = z
    /\ fase' = "creado"
    /\ UNCHANGED <<N_PARTICULAS, ANCHO_CAJA, ALTO_CAJA, V_MEDIA_INI,
                   previo, ultimo_dt>>

\* actualizar_cuadro / the tests' loops: simulacion.paso(particulas, dt, ...)
Paso ==
    /\ fase \in {"creado", "simulando"}
    /\ \E dt \in -MaxDt..MaxDt :
          /\ particulas' = paso(particulas, dt, ANCHO_CAJA, ALTO_CAJA)
          /\ ultimo_dt' = dt
    /\ previo' = particulas
    /\ fase' = "simulando"
    /\ UNCHANGED <<N_PARTICULAS, ANCHO_CAJA, ALTO_CAJA, V_MEDIA_INI, normales>>

Next == CrearGas \/ Paso

Spec == Init /\ [][Next]_vars

----------------------------------------------------------------------------
\* Helpers of the properties

Indices == 1..Len(particulas)
Dts == -MaxDt..MaxDt
Cero == RInt(0)

\* p lies in the closed box [0, ANCHO_CAJA] x [0, ALTO_CAJA]
EnCaja(p) ==
    /\ 0 <= p.posicion[1] /\ p.posicion[1] <= ANCHO_CAJA
    /\ 0 <= p.posicion[2] /\ p.posicion[2] <= ALTO_CAJA

\* The bound of axis e (1: x, 2: y)
Limite(e) == IF e = 1 THEN ANCHO_CAJA ELSE ALTO_CAJA

\* The wall that clamped particle i on axis e in the last paso call
Golpe(i, e) == rama(mover(previo[i], ultimo_dt).posicion[e], Limite(e))

\* The wall that clamps particle i on axis e in the paso call being taken
GolpeSig(i, e) == rama(mover(particulas[i], ultimo_dt').posicion[e], Limite(e))

\* All orders in which the indices 1..n can be visited
Ordenes(n) ==
    {o \in [1..n -> 1..n] : \A a, b \in 1..n : a # b => o[a] # o[b]}

----------------------------------------------------------------------------
\* C1: once crear_gas has built the ensemble, after any number of paso calls
\* with any dt and the same box, every particle has 0 <= x <= ancho and
\* 0 <= y <= alto.
C1_NoEscape ==
    fase # "inicio" => \A i \in Indices : EnCaja(particulas[i])

\* A particle overshot a vertical and a horizontal wall in the last step
\* (a corner hit) and is in the box.
C1_Witness ==
    /\ fase = "simulando"
    /\ \E i \in Indices :
          /\ Golpe(i, 1) # "ninguna"
          /\ Golpe(i, 2) # "ninguna"
          /\ EnCaja(particulas[i])

\* C2: a paso call leaves energia_total unchanged: the mass of every
\* particle is unchanged and each velocity component is unchanged or negated.
C2_EnergyConserved ==
    [][fase # "inicio" =>
          /\ energia_total(particulas') = energia_total(particulas)
          /\ \A i \in Indices :
                /\ particulas'[i].masa = particulas[i].masa
                /\ \A e \in 1..2 :
                      particulas'[i].velocidad[e] \in
                          {particulas[i].velocidad[e],
                           -particulas[i].velocidad[e]}]_vars

\* A wall hit reversed a nonzero velocity in the last step of a gas with
\* energy.
C2_Witness ==
    /\ fase = "simulando"
    /\ energia_total(particulas) # Cero
    /\ \E i \in Indices : particulas[i].velocidad # previo[i].velocidad

\* C3: crear_gas(n, ...) returns exactly n particles, and paso keeps the
\* length and the order: particle i still has mass 1 and the speed components
\* of the i-th draws.
C3_LengthFixed ==
    fase # "inicio" =>
        /\ Len(particulas) = N_PARTICULAS
        /\ \A i \in Indices :
              /\ particulas[i].masa = 1
              /\ \A e \in 1..2 :
                    Abs(particulas[i].velocidad[e]) =
                        Abs(normales[i][e]) * V_MEDIA_INI

\* Two particles of different speeds, after a step that moved them.
C3_Witness ==
    /\ fase = "simulando"
    /\ Len(particulas) = 2
    /\ Abs(particulas[1].velocidad[1]) # Abs(particulas[2].velocidad[1])
    /\ particulas # previo

\* C4: temperatura is 0 for the empty ensemble, whose energia_total is 0
\* too; otherwise temperatura * k_B * len is energia_total.
C4_Temperatura ==
    fase # "inicio" =>
        \A k \in 1..MaxK :
            IF Len(particulas) = 0
            THEN /\ temperatura(particulas, k) = Cero
                 /\ energia_total(particulas) = Cero
            ELSE RMul(RMul(temperatura(particulas, k), RInt(k)),
                      RInt(Len(particulas))) = energia_total(particulas)

\* crear_gas(0, ...) has returned the empty ensemble.
C4_Witness ==
    /\ fase = "creado"
    /\ N_PARTICULAS = 0
    /\ particulas = <<>>

\* C5: energia_total >= 0, and it is 0 exactly when every particle has
\* velocity (0, 0).
C5_EnergyNonNegative ==
    /\ RLeq(Cero, energia_total(particulas))
    /\ energia_total(particulas) = Cero
          <=> \A i \in Indices : particulas[i].velocidad = <<0, 0>>

\* A nonempty gas at rest, and it has been stepped.
C5_Witness ==
    /\ fase = "simulando"
    /\ Len(particulas) > 0
    /\ \A i \in Indices : particulas[i].velocidad = <<0, 0>>
    /\ energia_total(particulas) = Cero

\* C6: in a paso call, a particle on the high wall of an axis with positive
\* velocity that the move pushes past the wall ends exactly on that wall
\* with its velocity component negated; one that the move pushes below 0
\* ends at 0 with the component negated.
C6_BoundaryReflection ==
    [][fase # "inicio" =>
          \A i \in Indices : \A e \in 1..2 :
              LET x == particulas[i].posicion[e]
                  v == particulas[i].velocidad[e]
                  m == x + v * ultimo_dt'
              IN  /\ (x = Limite(e) /\ v > 0 /\ m > Limite(e)) =>
                        /\ particulas'[i].posicion[e] = Limite(e)
                        /\ particulas'[i].velocidad[e] = -v
                  /\ m < 0 =>
                        /\ particulas'[i].posicion[e] = 0
                        /\ particulas'[i].velocidad[e] = -v]_vars

\* A particle that was exactly at x = ancho with vx > 0 was pushed past the
\* wall by the last step.
C6_Witness ==
    /\ fase = "simulando"
    /\ \E i \in Indices :
          /\ previo[i].posicion[1] = ANCHO_CAJA
          /\ previo[i].velocidad[1] > 0
          /\ ultimo_dt > 0
          /\ particulas[i].posicion[1] = ANCHO_CAJA
          /\ particulas[i].velocidad[1] < 0

\* C7: the gas created from the same draws with mean speed 2v has four times
\* the temperature of the gas created with v.
C7_TemperatureScaling ==
    fase = "creado" =>
        \A k \in 1..MaxK :
            temperatura(crear_gas(N_PARTICULAS, ANCHO_CAJA, ALTO_CAJA,
                                  2 * V_MEDIA_INI,
                                  [i \in Indices |-> particulas[i].posicion],
                                  normales), k)
              = RMul(RInt(4), temperatura(particulas, k))

\* A freshly created gas of two or more particles with a positive
\* temperature.
C7_Witness ==
    /\ fase = "creado"
    /\ Len(particulas) >= 2
    /\ temperatura(particulas, 1) # Cero

\* C8: colisionar_pared changes nothing of a particle inside the closed box,
\* a particle exactly on a wall included, and applying it twice is applying
\* it once.
C8_Idempotent ==
    fase # "inicio" =>
        \A i \in Indices :
            /\ colisionar_pared(particulas[i], ANCHO_CAJA, ALTO_CAJA)
                  = particulas[i]
            /\ \A dt \in Dts :
                  LET c == colisionar_pared(mover(particulas[i], dt),
                                            ANCHO_CAJA, ALTO_CAJA)
                  IN  colisionar_pared(c, ANCHO_CAJA, ALTO_CAJA) = c

\* A particle exactly on the wall y = alto that still moves towards it.
C8_Witness ==
    /\ fase = "simulando"
    /\ \E i \in Indices :
          /\ particulas[i].posicion[2] = ALTO_CAJA
          /\ particulas[i].velocidad[2] > 0

\* C9: paso gives each particle mover then colisionar_pared of its own
\* previous state, whatever the order in which the particles are visited.
C9_OrderIrrelevant ==
    fase # "inicio" =>
        \A dt \in Dts :
            LET cadaUna ==
                    [i \in Indices |->
                        colisionar_pared(mover(particulas[i], dt),
                                         ANCHO_CAJA, ALTO_CAJA)]
            IN  /\ paso(particulas, dt, ANCHO_CAJA, ALTO_CAJA) = cadaUna
                /\ \A o \in Ordenes(Len(particulas)) :
                      paso_en_orden(particulas, o, dt,
                                    ANCHO_CAJA, ALTO_CAJA) = cadaUna

\* Two particles in different states, both changed by the last step.
C9_Witness ==
    /\ fase = "simulando"
    /\ Len(particulas) = 2
    /\ particulas[1] # particulas[2]
    /\ particulas[1] # previo[1]
    /\ particulas[2] # previo[2]

\* C10: in a paso call with dt > 0, a particle clamped to the low wall of an
\* axis leaves with a positive velocity component and one clamped to the high
\* wall with a negative one; and if the call before (dt > 0 too) clamped it
\* to a wall, this call does not clamp it to the same wall and leaves it off
\* that wall.
C10_NoDoubleReflection ==
    [][(fase # "inicio" /\ ultimo_dt' > 0) =>
          \A i \in Indices : \A e \in 1..2 :
              /\ GolpeSig(i, e) = "baja" =>
                    /\ particulas'[i].posicion[e] = 0
                    /\ particulas'[i].velocidad[e] > 0
              /\ GolpeSig(i, e) = "alta" =>
                    /\ particulas'[i].posicion[e] = Limite(e)
                    /\ particulas'[i].velocidad[e] < 0
              /\ (fase = "simulando" /\ ultimo_dt > 0
                    /\ Golpe(i, e) = "baja") =>
                    /\ GolpeSig(i, e) # "baja"
                    /\ particulas'[i].posicion[e] > 0
              /\ (fase = "simulando" /\ ultimo_dt > 0
                    /\ Golpe(i, e) = "alta") =>
                    /\ GolpeSig(i, e) # "alta"
                    /\ particulas'[i].posicion[e] < Limite(e)]_vars

\* A step with dt > 0 has just clamped a particle to the wall x = 0.
C10_Witness ==
    /\ fase = "simulando"
    /\ ultimo_dt > 0
    /\ \E i \in Indices :
          /\ Golpe(i, 1) = "baja"
          /\ particulas[i].posicion[1] = 0
          /\ particulas[i].velocidad[1] > 0

====
